---- MODULE Spec2Model ----
(***************************************************************************)
(* Model of pkg/shipper/shipper.go: the Shipper that scans a TSDB data     *)
(* directory for blocks and uploads them to an object bucket.              *)
(*                                                                         *)
(* State: the local data directory (block directories, the shipper meta    *)
(* file thanos.shipper.json and its .tmp sibling, the staging directories  *)
(* thanos/upload/<id>), the bucket, and for each shipper process the       *)
(* position in Sync with its local variables.  One action per step of the  *)
(* code that touches the file system or the bucket, so that a crash, an    *)
(* error or an external change can fall between any two of them.           *)
(***************************************************************************)
EXTENDS Naturals, Integers, Sequences, FiniteSets, TLC

\* ------------------------------------------------------------------ bounds
\* Number of block IDs (ULIDs) that may ever appear in the data directory.
NBlocks == 2
\* Number of chunk files in a block's chunks/ directory.
MaxChunks == 1
\* Number of process crashes in a behaviour.
MaxCrashes == 1
\* Number of failing calls (remote calls, file operations) in a behaviour.
MaxFaults == 1

\* ULIDs sort by name; block b is the b-th name in directory order.
Blocks == 1..NBlocks
\* Shipper processes.  Sync is not concurrency-safe (l.139): under Spec the
\* caller serializes the passes and process 1 runs them all.
Procs == {1, 2}

\* ------------------------------------------------------------ file contents
\* block.ChunksDirname, block.IndexFilename, block.MetaFilename
ChunkFile(i) == <<"chunks", i>>
IndexFile == <<"index", 0>>
BlockMetaFile == <<"meta.json", 0>>
ChunkFiles == {ChunkFile(i) : i \in 1..MaxChunks}
\* The files of a block directory.
DataFiles == ChunkFiles \cup {IndexFile}
BlockFiles == DataFiles \cup {BlockMetaFile}
\* The chunks directory of a block directory, as an entry of it.
ChunksDir == <<"chunks", 0>>
\* The entries of a complete block directory.
BlockEntries == BlockFiles \cup {ChunksDir}

\* A file entry of a staging directory or an object of the bucket.
Entry(f, c) == [name |-> f, content |-> c]
Names(entries) == {e.name : e \in entries}

\* The bytes at thanos.shipper.json or thanos.shipper.json.tmp.
Absent == [kind |-> "absent", version |-> 0, uploaded |-> << >>]
Garbage == [kind |-> "garbage", version |-> 0, uploaded |-> << >>]
\* A file of no bytes, as os.Create leaves it.
Empty == [kind |-> "empty", version |-> 0, uploaded |-> << >>]

\* A staging directory: dir and chunks tell whether the directory and its
\* chunks subdirectory exist, files are the files in the two.
\* A directory that does not exist.
NoDir == [dir |-> FALSE, chunks |-> FALSE, files |-> {}]
\* A directory fresh from os.MkdirAll(updir).
EmptyDir == [dir |-> TRUE, chunks |-> FALSE, files |-> {}]

Range(s) == {s[i] : i \in 1..Len(s)}

RECURSIVE SortedSeq(_)
\* The elements of a set of block IDs in directory (name) order.
SortedSeq(S) ==
    IF S = {} THEN << >>
    ELSE LET m == CHOOSE x \in S : \A y \in S : x <= y
         IN  <<m>> \o SortedSeq(S \ {m})

VARIABLES
    level,        \* level[b]: meta.Compaction.Level of block b
    local,        \* local[b]: "future" | "present" | "gone" (block directory)
    srcFiles,     \* srcFiles[b]: the entries of the block directory <dir>/<b>
    srcMeta,      \* srcMeta[b]: content of <dir>/<b>/meta.json
    metaFile,     \* content of <dir>/thanos.shipper.json
    tmpFile,      \* content of <dir>/thanos.shipper.json.tmp
    staging,      \* staging[b]: the directory <dir>/thanos/upload/<b>
    bucket,       \* bucket[b]: the objects <b>/<name> of the remote store
    sh,           \* sh[p]: position and local variables of process p in Sync
    faults,       \* number of failed calls so far
    crashes,      \* number of crashes so far
    ts,           \* the caller of Timestamps: its position, what it returned
    hist          \* history: what happened, for stating the properties

vars == <<level, local, srcFiles, srcMeta, metaFile, tmpFile, staging, bucket, sh,
          faults, crashes, ts, hist>>
fsVars == <<local, srcFiles, srcMeta, metaFile, tmpFile, staging>>
envVars == <<level, crashes, ts>>

\* ------------------------------------------------------- process-local state
\* A process outside Sync.
Idle == [pc |-> "idle",
         meta |-> [Version |-> 1, Uploaded |-> << >>],   \* meta (l.141-157)
         hasUploaded |-> {},                             \* hasUploaded (l.152)
         names |-> << >>, idx |-> 0,                     \* names, loop index (l.238-242)
         err |-> "nil",                                  \* sync's named result err
         files |-> << >>,                                \* files of hardlinkBlock (l.275-282)
         linkQ |-> << >>,                                \* files still to link (l.284)
         upQ |-> << >>,                                  \* files still to upload
         wrote |-> "none",                               \* outcome of WriteMetaFile (l.178)
         \* f (l.307): "none", or the path at which the file that f is
         \* open on is found now: "tmp", "meta", or "unlinked"
         fd |-> "none",
         \* history of this pass
         readOK |-> FALSE,     \* ReadMetaFile returned a record
         intact |-> {},        \* IDs of the record that was lost before this pass
         prev |-> "none",      \* hist.prev when the pass began
         quiet |-> TRUE,       \* no block appeared or vanished since the pass began
         start |-> Absent,     \* content of the meta file when the pass began
         old |-> Absent,       \* content of the meta file when WriteMetaFile began
         visited |-> {},       \* blocks the callback was called for
         unread |-> {},        \* present blocks whose Stat or meta.json read failed
         failed |-> {},        \* blocks for which s.sync returned an error
         found |-> {},         \* blocks whose Exists returned true
         absent |-> {},        \* blocks whose Exists returned false
         stale |-> {},         \* blocks whose staging directory was there at l.208
         raced |-> FALSE,      \* the current block lost an entry before all links were made
         transferred |-> {}]   \* blocks with an object written in this pass

Cur(s) == s.names[s.idx]

\* The caller of Timestamps before the first call: its position in
\* Timestamps ("idle" before the first call, "done" once a call has
\* returned), hasUploaded (l.109), the names and the loop index of
\* iterBlockMetas, the blocks the callback was called for, and minTime,
\* maxSyncTime and err (l.103).
NoResult == [pc |-> "idle", hasUploaded |-> {}, names |-> << >>, idx |-> 0,
             seen |-> {},
             minTime |-> <<0, 0, 0>>, maxSyncTime |-> <<0, 0, 0>>,
             err |-> "none"]

\* ------------------------------------------------------------------ initial
\* hist.prev: "none" when no pass has returned yet, or when a block
\* appeared or vanished, the meta file was damaged or the process crashed
\* since the last returned pass began; else "clean" when that pass read the
\* meta.json of every block, recorded every block and wrote the record,
\* "failed" when it did not.
\* hist.lost: the IDs of the last readable record, while the file is damaged.
\* hist.rmFailed: an os.RemoveAll of a staging directory has failed.
\* hist.overlap: Sync was called while another call of Sync was under way.
\* hist.clobbered: the os.RemoveAll of l.208 removed a staging directory
\* that another call of Sync was populating or uploading from.
Init ==
    /\ level \in [Blocks -> {1, 2}]
    /\ local = [b \in Blocks |-> "future"]
    /\ srcFiles = [b \in Blocks |-> {}]
    /\ srcMeta = [b \in Blocks |-> "tsdb"]
    /\ metaFile = Absent
    /\ tmpFile = Absent
    /\ staging = [b \in Blocks |-> NoDir]
    /\ bucket = [b \in Blocks |-> {}]
    /\ sh = [p \in Procs |-> Idle]
    /\ faults = 0
    /\ crashes = 0
    /\ ts = NoResult
    /\ hist = [manifestWrites |-> [b \in Blocks |-> 0],
               everShipped |-> {},
               lost |-> {},
               rmFailed |-> FALSE,
               overlap |-> FALSE,
               clobbered |-> FALSE,
               prev |-> "none"]

\* ------------------------------------------------------------ pure helpers
\* json.Encoder on a Meta: the bytes WriteMetaFile puts in the .tmp file.
Encode(meta) ==
    [kind |-> "json", version |-> meta.Version, uploaded |-> meta.Uploaded]

\* A ReadMetaFile without the version check.
ReadMetaFileAnyVersion(file) ==
    IF file.kind = "absent"
    THEN [err |-> "notexist", meta |-> [Version |-> 0, Uploaded |-> << >>]]
    ELSE IF file.kind \in {"garbage", "empty"}
    THEN [err |-> "unmarshal", meta |-> [Version |-> 0, Uploaded |-> << >>]]
    ELSE [err |-> "nil",
          meta |-> [Version |-> file.version, Uploaded |-> file.uploaded]]

\* ReadMetaFile: ioutil.ReadFile, json.Unmarshal, the version check.
ReadMetaFile(file) ==
    IF file.kind = "absent"
    THEN [err |-> "notexist", meta |-> [Version |-> 0, Uploaded |-> << >>]]
    ELSE IF file.kind \in {"garbage", "empty"}
    THEN [err |-> "unmarshal", meta |-> [Version |-> 0, Uploaded |-> << >>]]
    ELSE IF file.version # 1
    THEN [err |-> "version", meta |-> [Version |-> 0, Uploaded |-> << >>]]
    ELSE [err |-> "nil",
          meta |-> [Version |-> file.version, Uploaded |-> file.uploaded]]

\* ReadMetaFile, l.327-330: ioutil.ReadFile fails on a file that is there
\* (an I/O error, no permission, no descriptor left).
ReadFileError == [err |-> "read", meta |-> [Version |-> 0, Uploaded |-> << >>]]

\* Sync, l.141-150: the record Sync goes on with after ReadMetaFile
\* returned r; any error gives the empty record of version 1.
Loaded(r) ==
    IF r.err # "nil"
    THEN [Version |-> 1, Uploaded |-> << >>]
    ELSE r.meta

\* Sync, l.141-150, for the bytes of the meta file when the read works.
LoadedMeta(file) == Loaded(ReadMetaFile(file))

\* Sync, l.152-155: the map of blocks already uploaded.
HasUploaded(meta) == Range(meta.Uploaded)

\* A Sync that forgets to reset the list it appends to.
KeepUploaded(meta) == meta

\* Sync, l.157: meta.Uploaded = nil.
ResetUploaded(meta) == [meta EXCEPT !.Uploaded = << >>]

\* A callback that calls s.sync for every block.
NeverUploaded(s, m) == FALSE

\* Sync, l.164: the callback skips s.sync for a block of the loaded record.
AlreadyUploaded(s, m) == m \in s.hasUploaded

\* A callback that appends the ID whatever s.sync returned.
AppendedAlways(e) == TRUE

\* Sync, l.165-172: the ID is appended unless s.sync returned an error.
Appended(e) == e = "nil"

\* A callback that returns the error of s.sync, which ends the scan.
CallbackPropagates(e) == e

\* Sync, l.165-173: what the callback returns to iterBlockMetas.
CallbackResult(e) == "nil"

\* A filter that lets the second compaction level through.
LevelFilterLate(lvl) == lvl > 2

\* sync, l.188: only the first compaction level is shipped.
LevelFilter(lvl) == lvl > 1

\* A check of an object name that Upload never writes.
ExistsPathWrong == <<"meta.json", 1>>

\* sync, l.193: the object whose existence is checked.
ExistsPath == BlockMetaFile

\* A sync that uploads whatever Exists returned, and one that never uploads.
SkipNever(ok) == FALSE
SkipAlways(ok) == TRUE

\* sync, l.197-199: a block found in the bucket is not uploaded again.
SkipUpload(ok) == ok

\* block.ReadMetaFile(dir) of iterBlockMetas (l.248-260) finds the meta.json.
MetaReadable(b) == local[b] = "present" /\ BlockMetaFile \in srcFiles[b]

\* hardlinkBlock, l.275: fileutil.ReadDir of the chunks directory of b,
\* which fails when the directory is not there.
ChunksListable(b) == local[b] = "present" /\ ChunksDir \in srcFiles[b]
ListChunks(b) ==
    SelectSeq([i \in 1..MaxChunks |-> ChunkFile(i)],
              LAMBDA f : f \in srcFiles[b])

\* A hardlinkBlock that leaves the index out.
LinkListNoIndex(chunks) == chunks \o <<BlockMetaFile>>

\* hardlinkBlock, l.279-282: the files to link, in order.
LinkList(chunks) == chunks \o <<BlockMetaFile, IndexFile>>

\* The content of file f of the block directory of b.
SrcContent(b, f) == IF f = BlockMetaFile THEN srcMeta[b] ELSE "data"

\* block.Upload: the staged files in upload order, the manifest last.
UploadOrder(files) ==
    SelectSeq([i \in 1..MaxChunks |-> ChunkFile(i)] \o <<IndexFile, BlockMetaFile>>,
              LAMBDA f : f \in Names(files))

\* The entries of a directory or bucket prefix after writing file f.
Put(entries, f, c) == {e \in entries : e.name # f} \cup {Entry(f, c)}
ContentOf(entries, f) == (CHOOSE e \in entries : e.name = f).content

SetProc(p, s) == sh' = [sh EXCEPT ![p] = s]

\* A call fails (an I/O error, a remote error, a cancelled context), or not.
Fails == faults < MaxFaults /\ faults' = faults + 1
Works == faults' = faults

\* Sync, l.165-173 and iterBlockMetas, l.261-263: s.sync returned e for the
\* current block; the callback appends the ID or logs, and the loop goes on
\* unless the callback returned an error.
CallbackDone(p, s, e) ==
    LET s1 == [s EXCEPT
                 !.meta.Uploaded = IF Appended(e) THEN Append(@, Cur(s)) ELSE @,
                 !.failed = IF e = "nil" THEN @ ELSE @ \cup {Cur(s)},
                 !.err = "nil", !.files = << >>, !.linkQ = << >>,
                 !.upQ = << >>, !.raced = FALSE]
    IN  IF CallbackResult(e) = "nil"
        THEN SetProc(p, [s1 EXCEPT !.pc = "loop", !.idx = @ + 1])
        ELSE SetProc(p, [s1 EXCEPT !.pc = "ret"])

\* A sync whose RemoveAll is not deferred: it returns e at once.
NotDeferred(p, s, e) == CallbackDone(p, s, e)

\* sync, l.214-218: the deferred RemoveAll runs before sync returns e.
Deferred(p, s, e) == SetProc(p, [s EXCEPT !.pc = "cleanup", !.err = e])

\* ---------------------------------------------------------------- Sync
\* Sync, l.141-157: load the record, build hasUploaded, reset the list.
SyncReadMeta(p) ==
    /\ sh[p].pc = "idle"
    /\ \E r \in {ReadMetaFile(metaFile), ReadFileError} :
          /\ IF r = ReadFileError
             THEN metaFile.kind # "absent" /\ Fails
             ELSE Works
          /\ LET meta == Loaded(r)
                 ok == r.err = "nil"
             IN  SetProc(p, [Idle EXCEPT
                     !.pc = "iter",
                     !.hasUploaded = HasUploaded(meta),
                     !.meta = ResetUploaded(meta),
                     !.readOK = ok,
                     !.intact = IF ok THEN {}
                                ELSE IF ReadMetaFile(metaFile).err = "nil"
                                THEN Range(metaFile.uploaded)
                                ELSE hist.lost,
                     !.prev = hist.prev,
                     !.start = IF hist.prev = "none" THEN Absent ELSE metaFile])
    /\ hist' = [hist EXCEPT
          !.overlap = @ \/ (\E q \in Procs \ {p} : sh[q].pc # "idle")]
    /\ UNCHANGED <<fsVars, bucket, envVars>>

\* iterBlockMetas, l.238-241: list the data directory.  On an error Sync
\* logs and returns (l.174-177).  Entries that are no block directory
\* (IsBlockDir, IsDir, l.243-255) are left out of the listing.
IterReadDir(p) ==
    /\ sh[p].pc = "iter"
    /\ \/ /\ Fails
          /\ SetProc(p, [sh[p] EXCEPT !.pc = "ret"])
       \/ /\ Works
          /\ SetProc(p, [sh[p] EXCEPT
                !.pc = "loop", !.idx = 1,
                !.names = SortedSeq({b \in Blocks : local[b] = "present"})])
    /\ UNCHANGED <<fsVars, bucket, envVars, hist>>

\* A loop that ends after the first name.
ScanFinishedEarly(s) == s.idx > Len(s.names) \/ s.idx > 1

\* iterBlockMetas, l.242: the loop over the names has ended.
ScanFinished(s) == s.idx > Len(s.names)

\* iterBlockMetas, l.242-264, with the callback's test of hasUploaded
\* (l.164) and, past the last name, the return to Sync (l.178).
IterNext(p) ==
    LET s == sh[p] IN
    /\ s.pc = "loop"
    /\ IF ScanFinished(s)
       THEN /\ SetProc(p, [s EXCEPT !.pc = "wcreate", !.old = metaFile])
            /\ Works
       ELSE IF ~MetaReadable(Cur(s))
       THEN \* the directory or its meta.json is not there: warn and continue
            /\ SetProc(p, [s EXCEPT !.idx = @ + 1])
            /\ Works
       ELSE \/ \* os.Stat or block.ReadMetaFile fails on what is there
               \* (l.249-251, l.257-260): warn and continue
               /\ Fails
               /\ SetProc(p, [s EXCEPT !.idx = @ + 1,
                                       !.unread = @ \cup {Cur(s)}])
            \/ /\ Works
               /\ LET s1 == [s EXCEPT !.visited = @ \cup {Cur(s)}]
                  IN  IF AlreadyUploaded(s1, Cur(s))
                      THEN CallbackDone(p, s1, "nil")
                      ELSE SetProc(p, [s1 EXCEPT !.pc = "sync"])
    /\ UNCHANGED <<fsVars, bucket, envVars, hist>>

\* sync, l.184-190: the compaction level filter.
SyncFilter(p) ==
    LET s == sh[p] IN
    /\ s.pc = "sync"
    /\ IF LevelFilter(level[Cur(s)])
       THEN CallbackDone(p, s, "nil")
       ELSE SetProc(p, [s EXCEPT !.pc = "exists"])
    /\ UNCHANGED <<fsVars, bucket, envVars, faults, hist>>

\* sync, l.192-199: bucket.Exists on <id>/meta.json.
BucketExists(p) ==
    LET s == sh[p]
        ok == ExistsPath \in Names(bucket[Cur(s)])
    IN
    /\ s.pc = "exists"
    /\ \/ /\ Fails     \* the call fails or the context is cancelled
          /\ CallbackDone(p, s, "check exists")
       \/ /\ Works
          /\ LET s1 == [s EXCEPT
                          !.found = IF ok THEN @ \cup {Cur(s)} ELSE @,
                          !.absent = IF ok THEN @ ELSE @ \cup {Cur(s)}]
             IN  IF SkipUpload(ok)
                 THEN CallbackDone(p, s1, "nil")
                 ELSE SetProc(p, [s1 EXCEPT !.pc = "rmupdir"])
    /\ UNCHANGED <<fsVars, bucket, envVars, hist>>

\* A RemoveAll that leaves the directory as it is.
RemoveAllSkipped(d) == d

\* os.RemoveAll (l.208, l.215): the directory and what it holds are gone.
RemoveAll(d) == NoDir

\* sync, l.205-210: os.RemoveAll(updir).
CleanUpdir(p) ==
    LET s == sh[p] IN
    /\ s.pc = "rmupdir"
    /\ \/ /\ Fails
          /\ CallbackDone(p, s, "clean upload directory")
          /\ hist' = [hist EXCEPT !.rmFailed = TRUE]
          /\ UNCHANGED staging
       \/ /\ Works
          /\ staging' = [staging EXCEPT ![Cur(s)] = RemoveAll(@)]
          /\ SetProc(p, [s EXCEPT
                !.pc = "mkupdir",
                !.stale = IF staging[Cur(s)] # NoDir THEN @ \cup {Cur(s)} ELSE @])
          /\ hist' = [hist EXCEPT
                !.clobbered = @ \/ (\E q \in Procs \ {p} :
                    /\ sh[q].pc \in {"hardlink", "linking", "wmeta", "upload"}
                    /\ Cur(sh[q]) = Cur(s))]
    /\ UNCHANGED <<local, srcFiles, srcMeta, metaFile, tmpFile, bucket, envVars>>

\* sync, l.211-218: os.MkdirAll(updir); from here on the deferred
\* RemoveAll runs when sync returns.
MakeUpdir(p) ==
    LET s == sh[p] IN
    /\ s.pc = "mkupdir"
    /\ \/ /\ Fails
          /\ CallbackDone(p, s, "create upload dir")
          /\ UNCHANGED staging
       \/ /\ Works
          /\ staging' = [staging EXCEPT ![Cur(s)].dir = TRUE]
          /\ SetProc(p, [s EXCEPT !.pc = "hardlink"])
    /\ UNCHANGED <<local, srcFiles, srcMeta, metaFile, tmpFile, bucket, envVars, hist>>

\* hardlinkBlock, l.269-282: os.MkdirAll of the chunks directory of updir
\* (which creates updir too when it is gone), then fileutil.ReadDir of the
\* chunks directory of the source block.  The first call writes the staging
\* directory only and the second reads the block directory only, so that
\* nothing that falls between the two tells them from one step; either of
\* them can fail.
HardlinkBegin(p) ==
    LET s == sh[p] IN
    /\ s.pc = "hardlink"
    /\ \/ \* os.MkdirAll fails (l.271-273)
          /\ Fails
          /\ Deferred(p, s, "create chunks dir")
          /\ UNCHANGED staging
       \/ \* fileutil.ReadDir fails on a chunks directory that is there
          \* (l.275-278)
          /\ ChunksListable(Cur(s))
          /\ Fails
          /\ staging' = [staging EXCEPT ![Cur(s)].dir = TRUE,
                                        ![Cur(s)].chunks = TRUE]
          /\ Deferred(p, s, "read chunk dir")
       \/ /\ Works
          /\ staging' = [staging EXCEPT ![Cur(s)].dir = TRUE,
                                        ![Cur(s)].chunks = TRUE]
          /\ IF ~ChunksListable(Cur(s))
             THEN Deferred(p, s, "read chunk dir")
             ELSE SetProc(p, [s EXCEPT
                     !.pc = "linking",
                     !.files = LinkList(ListChunks(Cur(s))),
                     !.linkQ = LinkList(ListChunks(Cur(s))),
                     !.raced = @ \/ srcFiles[Cur(s)] # BlockEntries])
    /\ UNCHANGED <<local, srcFiles, srcMeta, metaFile, tmpFile, bucket, envVars, hist>>

\* The directory a file of the staging directory of b is linked into:
\* updir/chunks for a chunk file, updir for meta.json and index.
TargetDirExists(b, f) ==
    IF f \in ChunkFiles THEN staging[b].chunks ELSE staging[b].dir

\* hardlinkBlock, l.284-289: os.Link of the next file.  It fails when the
\* source file or the target directory is gone or the target name exists.
LinkFile(p) ==
    LET s == sh[p]
        b == Cur(s)
        f == Head(s.linkQ)
        can == local[b] = "present" /\ f \in srcFiles[b] /\ TargetDirExists(b, f)
               /\ f \notin Names(staging[b].files)
    IN
    /\ s.pc = "linking"
    /\ IF s.linkQ = << >>
       THEN /\ SetProc(p, [s EXCEPT !.pc = "wmeta"])
            /\ UNCHANGED <<staging, faults>>
       ELSE \/ /\ Fails \/ (~can /\ Works)
               /\ Deferred(p, s, "hard link file")
               /\ UNCHANGED staging
            \/ /\ can /\ Works
               /\ staging' = [staging EXCEPT
                     ![b].files = Put(@, f, SrcContent(b, f))]
               /\ SetProc(p, [s EXCEPT !.linkQ = Tail(@)])
    /\ UNCHANGED <<local, srcFiles, srcMeta, metaFile, tmpFile, bucket, envVars, hist>>

\* A sync that writes the new meta.json into the block directory.
MetaTargetSource == "dir"

\* sync, l.228: the directory block.WriteMetaFile is called on.
MetaTargetDir == "updir"

\* A writer that opens the staged meta.json and writes into it: the bytes
\* land in the file that the link shares with the block directory.
WriteThroughLink(b) == [srcMeta EXCEPT ![b] = "thanos"]

\* block.WriteMetaFile: the meta.json files of the block directories after
\* the staged meta.json of b was written.  The writer fills a temporary
\* file and renames it onto the entry, so the source keeps its bytes.
WriteReplacesLink(b) == srcMeta

\* sync, l.223-230: attach the labels and the source, then
\* block.WriteMetaFile(updir, meta) puts a new meta.json in the staging
\* directory in place of the link.
WriteStagedMeta(p) ==
    LET s == sh[p]
        b == Cur(s)
    IN
    /\ s.pc = "wmeta"
    /\ \/ /\ Fails \/ (~staging[b].dir /\ Works)
          /\ Deferred(p, s, "write meta file")
          /\ UNCHANGED <<staging, srcMeta>>
       \/ /\ staging[b].dir /\ Works
          /\ IF MetaTargetDir = "updir"
             THEN /\ staging' = [staging EXCEPT
                        ![b].files = Put(@, BlockMetaFile, "thanos")]
                  /\ srcMeta' = WriteReplacesLink(b)
             ELSE /\ srcMeta' = [srcMeta EXCEPT ![b] = "thanos"]
                  /\ UNCHANGED staging
          /\ SetProc(p, [s EXCEPT
                !.pc = "upload",
                !.upQ = UploadOrder(Put(staging[b].files, BlockMetaFile, "thanos"))])
    /\ UNCHANGED <<local, srcFiles, metaFile, tmpFile, bucket, envVars, hist>>

\* sync, l.231: block.Upload(ctx, logger, bucket, updir), one object per step.
UploadFile(p) ==
    LET s == sh[p]
        b == Cur(s)
        f == Head(s.upQ)
        can == f \in Names(staging[b].files)
    IN
    /\ s.pc = "upload"
    /\ IF s.upQ = << >>
       THEN /\ Deferred(p, s, "nil")
            /\ UNCHANGED <<bucket, hist, faults>>
       ELSE \/ /\ Fails \/ (~can /\ Works)
               /\ Deferred(p, s, "upload")
               /\ UNCHANGED <<bucket, hist>>
            \/ /\ can /\ Works
               /\ bucket' = [bucket EXCEPT
                     ![b] = Put(@, f, ContentOf(staging[b].files, f))]
               /\ hist' = IF f = BlockMetaFile
                          THEN [hist EXCEPT
                                  !.manifestWrites[b] = IF @ < 2 THEN @ + 1 ELSE @,
                                  !.everShipped = @ \cup {b}]
                          ELSE hist
               /\ SetProc(p, [s EXCEPT !.upQ = Tail(@),
                                       !.transferred = @ \cup {b}])
    /\ UNCHANGED <<fsVars, envVars>>

\* sync, l.214-218: the deferred os.RemoveAll(updir); a failure is logged.
\* Then sync returns err to the callback.
CleanupUpdir(p) ==
    LET s == sh[p] IN
    /\ s.pc = "cleanup"
    /\ \/ /\ Fails
          /\ hist' = [hist EXCEPT !.rmFailed = TRUE]
          /\ UNCHANGED staging
       \/ /\ Works
          /\ staging' = [staging EXCEPT ![Cur(s)] = RemoveAll(@)]
          /\ UNCHANGED hist
    /\ CallbackDone(p, s, s.err)
    /\ UNCHANGED <<local, srcFiles, srcMeta, metaFile, tmpFile, bucket, envVars>>

\* ------------------------------------------------------- WriteMetaFile
\* Sync, l.178-180: WriteMetaFile returned; an error is logged.
WriteDone(p, s, e) == SetProc(p, [s EXCEPT !.pc = "ret", !.wrote = e])

\* WriteMetaFile, l.304-310: os.Create(tmp) truncates the file at the path,
\* or creates it, and returns f open on that file.
WriteCreate(p) ==
    LET s == sh[p] IN
    /\ s.pc = "wcreate"
    /\ \/ /\ Fails
          /\ WriteDone(p, s, "err")
          /\ UNCHANGED tmpFile
       \/ /\ Works
          /\ tmpFile' = Empty
          /\ SetProc(p, [s EXCEPT !.pc = "wencode", !.fd = "tmp"])
    /\ UNCHANGED <<local, srcFiles, srcMeta, metaFile, staging, bucket, envVars, hist>>

\* The bytes of a file after new was written at its start (the one Write of
\* json.Encoder, at offset 0 of f): new, unless the file held more bytes
\* than new has, whose tail then follows the record and json.Unmarshal
\* rejects the file.  The length of an encoded record grows with the number
\* of its IDs; the length of undecodable bytes is not known.
Overwritten(old, new) ==
    IF old.kind = "empty" THEN {new}
    ELSE IF old.kind = "json"
    THEN IF Len(old.uploaded) <= Len(new.uploaded) THEN {new} ELSE {Garbage}
    ELSE {new, Garbage}

\* The bytes of the file f of s is open on; none when it has no name left.
Opened(s) ==
    IF s.fd = "tmp" THEN tmpFile
    ELSE IF s.fd = "meta" THEN metaFile
    ELSE Empty

\* The file f of s is open on gets the bytes c, whatever path it is at.
WriteOpened(s, c) ==
    /\ tmpFile' = IF s.fd = "tmp" THEN c ELSE tmpFile
    /\ metaFile' = IF s.fd = "meta" THEN c ELSE metaFile

\* WriteMetaFile, l.312-321: encode the record into f and close it.
\* When Encode fails the file stays as it was or cut short; when Close
\* fails it is written.
WriteEncode(p) ==
    LET s == sh[p] IN
    /\ s.pc = "wencode"
    /\ \E c \in Overwritten(Opened(s), Encode(s.meta)) :
          \/ /\ Fails
             /\ WriteDone(p, [s EXCEPT !.fd = "none"], "err")
             /\ \/ WriteOpened(s, c)
                \/ WriteOpened(s, Opened(s))
                \/ WriteOpened(s, Garbage)
          \/ /\ Works
             /\ WriteOpened(s, c)
             /\ SetProc(p, [s EXCEPT !.pc = "wremove", !.fd = "none"])
    /\ UNCHANGED <<local, srcFiles, srcMeta, staging, bucket, envVars, hist>>

\* Where an open file is found after os.RemoveAll(to) took the name
\* thanos.shipper.json away, and after os.Rename(tmp, to) gave that name to
\* the file at thanos.shipper.json.tmp.
AfterRemove(fd) == IF fd = "meta" THEN "unlinked" ELSE fd
AfterRename(fd) ==
    IF fd = "meta" THEN "unlinked" ELSE IF fd = "tmp" THEN "meta" ELSE fd

\* renameFile, l.344-346: os.RemoveAll(to).
RenameRemove(p) ==
    LET s == sh[p] IN
    /\ s.pc = "wremove"
    /\ \/ /\ Fails
          /\ WriteDone(p, s, "err")
          /\ UNCHANGED <<metaFile, hist>>
       \/ /\ Works
          /\ metaFile' = Absent
          /\ hist' = [hist EXCEPT !.lost = {}]
          /\ sh' = [q \in Procs |->
                     IF q = p THEN [s EXCEPT !.pc = "wrename"]
                     ELSE [sh[q] EXCEPT !.fd = AfterRemove(@)]]
    /\ UNCHANGED <<local, srcFiles, srcMeta, tmpFile, staging, bucket, envVars>>

\* renameFile, l.347-349: os.Rename(from, to).
RenameMove(p) ==
    LET s == sh[p]
        can == tmpFile.kind # "absent"
    IN
    /\ s.pc = "wrename"
    /\ \/ /\ Fails \/ (~can /\ Works)
          /\ WriteDone(p, s, "err")
          /\ UNCHANGED <<metaFile, tmpFile>>
       \/ /\ can /\ Works
          /\ metaFile' = tmpFile
          /\ tmpFile' = Absent
          /\ sh' = [q \in Procs |->
                     IF q = p THEN [s EXCEPT !.pc = "wfsync"]
                     ELSE [sh[q] EXCEPT !.fd = AfterRename(@)]]
    /\ UNCHANGED <<local, srcFiles, srcMeta, staging, bucket, envVars, hist>>

\* renameFile, l.351-361: open, fsync and close the parent directory.
RenameFsync(p) ==
    LET s == sh[p] IN
    /\ s.pc = "wfsync"
    /\ \/ /\ Fails
          /\ WriteDone(p, s, "err")
       \/ /\ Works
          /\ WriteDone(p, s, "ok")
    /\ UNCHANGED <<fsVars, bucket, envVars, hist>>

\* Sync returns (l.176 or l.181).
SyncReturn(p) ==
    LET s == sh[p] IN
    /\ s.pc = "ret"
    /\ SetProc(p, Idle)
    /\ hist' = [hist EXCEPT
          !.prev = IF ~s.quiet THEN "none"
                   ELSE IF s.wrote = "ok" /\ s.failed = {} /\ s.unread = {}
                   THEN "clean"
                   ELSE "failed"]
    /\ UNCHANGED <<fsVars, bucket, envVars, faults>>

\* ---------------------------------------------------------- environment
\* The process is killed inside Sync: its variables are lost, the files
\* and the bucket stay as they are.
Crash(p) ==
    /\ sh[p].pc # "idle"
    /\ crashes < MaxCrashes
    /\ crashes' = crashes + 1
    /\ SetProc(p, Idle)
    /\ hist' = [hist EXCEPT !.prev = "none"]
    /\ UNCHANGED <<fsVars, bucket, level, ts, faults>>

\* A change of the set of local blocks, as the passes under way see it.
Disturbed == [p \in Procs |-> [sh[p] EXCEPT !.quiet = FALSE]]

\* The steps of s.sync from the preparation of the staging directory to the
\* last os.Link.
Populating(s) ==
    \/ s.pc \in {"rmupdir", "mkupdir", "hardlink"}
    \/ s.pc = "linking" /\ s.linkQ # << >>

\* Entries of the block directory of b go away, as the passes under way
\* see it.
Raced(b) ==
    [p \in Procs |->
        [sh[p] EXCEPT !.quiet = FALSE,
                      !.raced = @ \/ (Populating(sh[p]) /\ Cur(sh[p]) = b)]]

\* The TSDB writes a new block directory.
AddBlock(b) ==
    /\ local[b] = "future"
    /\ local' = [local EXCEPT ![b] = "present"]
    /\ srcFiles' = [srcFiles EXCEPT ![b] = BlockEntries]
    /\ sh' = Disturbed
    /\ hist' = [hist EXCEPT !.prev = "none"]
    /\ UNCHANGED <<srcMeta, metaFile, tmpFile, staging, bucket, envVars, faults>>

\* Retention or compaction deletes a block directory: in one step, or as
\* the last step of a removal entry by entry.
DeleteBlock(b) ==
    /\ local[b] = "present"
    /\ local' = [local EXCEPT ![b] = "gone"]
    /\ srcFiles' = [srcFiles EXCEPT ![b] = {}]
    /\ sh' = Raced(b)
    /\ hist' = [hist EXCEPT !.prev = "none"]
    /\ UNCHANGED <<srcMeta, metaFile, tmpFile, staging, bucket, envVars, faults>>

\* Retention or compaction removes a block directory entry by entry
\* (os.RemoveAll): one file goes, or the chunks directory once it is empty.
DeleteFile(b, f) ==
    /\ local[b] = "present"
    /\ f \in srcFiles[b]
    /\ f = ChunksDir => srcFiles[b] \cap ChunkFiles = {}
    /\ srcFiles' = [srcFiles EXCEPT ![b] = @ \ {f}]
    /\ sh' = Raced(b)
    /\ hist' = [hist EXCEPT !.prev = "none"]
    /\ UNCHANGED <<local, srcMeta, metaFile, tmpFile, staging, bucket, envVars, faults>>

\* Between two passes the shipper meta file is deleted.
MetaFileLost ==
    /\ \A p \in Procs : sh[p].pc = "idle"
    /\ metaFile.kind # "absent"
    /\ metaFile' = Absent
    /\ hist' = [hist EXCEPT
          !.lost = IF ReadMetaFile(metaFile).err = "nil"
                   THEN Range(metaFile.uploaded) ELSE @,
          !.prev = "none"]
    /\ UNCHANGED <<local, srcFiles, srcMeta, tmpFile, staging, bucket, sh, envVars, faults>>

\* Between two passes the shipper meta file is damaged: it is truncated, or
\* replaced by a file of another version.
MetaFileCorrupt ==
    /\ \A p \in Procs : sh[p].pc = "idle"
    /\ ReadMetaFile(metaFile).err = "nil"
    /\ metaFile' \in {Garbage, [kind |-> "json", version |-> 2, uploaded |-> << >>]}
    /\ hist' = [hist EXCEPT !.lost = Range(metaFile.uploaded), !.prev = "none"]
    /\ UNCHANGED <<local, srcFiles, srcMeta, tmpFile, staging, bucket, sh, envVars, faults>>

\* ----------------------------------------------------------- Timestamps
\* An int64 is written <<a, b, c>> for a * 10^18 + b * 10^9 + c, with a in
\* -10..9 and b, c in 0..999999999: every int64 has one such form, and the
\* order of the int64s is the order of the forms, place by place.
Int64(n) == <<0, 0, n>>
Less64(x, y) ==
    \/ x[1] < y[1]
    \/ x[1] = y[1] /\ x[2] < y[2]
    \/ x[1] = y[1] /\ x[2] = y[2] /\ x[3] < y[3]

\* math.MaxInt64 = 9223372036854775807 and
\* math.MinInt64 = -9223372036854775808 (l.114-115).
MathMaxInt64 == <<9, 223372036, 854775807>>
MathMinInt64 == <<-10, 776627963, 145224192>>

\* m.MinTime and m.MaxTime of the meta.json of block b (l.118, l.121).
BlockMinTime(b) == Int64(IF b = 2 THEN 50 ELSE 100 * b)
BlockMaxTime(b) == [BlockMinTime(b) EXCEPT ![3] = @ + 100]

\* A callback that counts every block as uploaded.
CountsAlways(m, hasUploaded) == TRUE

\* Timestamps, l.121: only a block of the record counts for maxSyncTime.
CountsAsSynced(m, hasUploaded) == m \in hasUploaded

\* A Timestamps that hands out the start value when no block was found.
KeepMinTime(minTime) == minTime

\* Timestamps, l.129-132: no block found, propagate 0.
NoBlockMinTime(minTime) == IF minTime = MathMaxInt64 THEN Int64(0) ELSE minTime

\* Timestamps, l.117-124: the callback, called for block m, with acc the
\* values of minTime and maxSyncTime so far.
TimestampsCallback(m, hasUploaded, acc) ==
    [minTime |-> IF Less64(BlockMinTime(m), acc.minTime)
                 THEN BlockMinTime(m) ELSE acc.minTime,
     maxSyncTime |-> IF CountsAsSynced(m, hasUploaded)
                        /\ Less64(acc.maxSyncTime, BlockMaxTime(m))
                     THEN BlockMaxTime(m) ELSE acc.maxSyncTime]

RECURSIVE TimestampsIter(_, _, _)
\* Timestamps, l.117-124: the callback called for each name in turn.
TimestampsIter(names, hasUploaded, acc) ==
    IF names = << >> THEN acc
    ELSE TimestampsIter(Tail(names), hasUploaded,
                        TimestampsCallback(Head(names), hasUploaded, acc))

\* Timestamps, l.103-135, as a function of what its calls return: the bytes
\* of the meta file, the names the callback is called for, and the outcome
\* of fileutil.ReadDir.
Timestamps(file, names, dirErr) ==
    IF ReadMetaFile(file).err # "nil"
    THEN [minTime |-> Int64(0), maxSyncTime |-> Int64(0),
          err |-> "read shipper meta file"]
    ELSE IF dirErr
    THEN [minTime |-> Int64(0), maxSyncTime |-> Int64(0),
          err |-> "iter Block metas for timestamp"]
    ELSE LET acc == TimestampsIter(names, HasUploaded(ReadMetaFile(file).meta),
                                   [minTime |-> MathMaxInt64,
                                    maxSyncTime |-> MathMinInt64])
         IN  [minTime |-> NoBlockMinTime(acc.minTime),
              maxSyncTime |-> acc.maxSyncTime,
              err |-> "nil"]

\* iterBlockMetas, l.238-260: the blocks the callback is called for when
\* nothing changes and no call fails during the scan.
ScannedNames == SortedSeq({b \in Blocks : MetaReadable(b)})

\* Timestamps returns minTime, maxSyncTime and err.
TimestampsReturn(minTime, maxSyncTime, err) ==
    ts' = [ts EXCEPT !.pc = "done", !.names = << >>, !.idx = 0,
                     !.minTime = minTime, !.maxSyncTime = maxSyncTime,
                     !.err = err]

\* Timestamps, l.104-115: read the record, build hasUploaded, set the start
\* values.  Timestamps is called at any point of a pass or between two
\* passes, once the call before it has returned.
TimestampsReadMeta ==
    /\ ts.pc \in {"idle", "done"}
    /\ \E r \in {ReadMetaFile(metaFile), ReadFileError} :
          /\ IF r = ReadFileError
             THEN metaFile.kind # "absent" /\ Fails
             ELSE Works
          /\ IF r.err # "nil"
             THEN ts' = [NoResult EXCEPT !.pc = "done",
                                         !.err = "read shipper meta file"]
             ELSE ts' = [NoResult EXCEPT !.pc = "dir",
                                         !.hasUploaded = HasUploaded(r.meta),
                                         !.minTime = MathMaxInt64,
                                         !.maxSyncTime = MathMinInt64]
    /\ UNCHANGED <<fsVars, bucket, sh, level, crashes, hist>>

\* iterBlockMetas, l.238-241, called at l.117: list the data directory; on
\* an error Timestamps returns it (l.125-127).
TimestampsReadDir ==
    /\ ts.pc = "dir"
    /\ \/ /\ Fails
          /\ ts' = [NoResult EXCEPT !.pc = "done",
                                    !.err = "iter Block metas for timestamp"]
       \/ /\ Works
          /\ ts' = [ts EXCEPT
                !.pc = "loop", !.idx = 1,
                !.names = SortedSeq({b \in Blocks : local[b] = "present"})]
    /\ UNCHANGED <<fsVars, bucket, sh, level, crashes, hist>>

\* iterBlockMetas, l.242-264, with the callback of l.117-124 and, past the
\* last name, l.129-134.
TimestampsNext ==
    /\ ts.pc = "loop"
    /\ IF ts.idx > Len(ts.names)
       THEN /\ TimestampsReturn(NoBlockMinTime(ts.minTime), ts.maxSyncTime, "nil")
            /\ Works
       ELSE IF ~MetaReadable(ts.names[ts.idx])
       THEN /\ ts' = [ts EXCEPT !.idx = @ + 1]
            /\ Works
       ELSE \/ \* os.Stat or block.ReadMetaFile fails on what is there
               /\ Fails
               /\ ts' = [ts EXCEPT !.idx = @ + 1]
            \/ /\ Works
               /\ LET m == ts.names[ts.idx]
                      acc == TimestampsCallback(m, ts.hasUploaded, ts)
                  IN  ts' = [ts EXCEPT !.idx = @ + 1,
                                       !.seen = @ \cup {m},
                                       !.minTime = acc.minTime,
                                       !.maxSyncTime = acc.maxSyncTime]
    /\ UNCHANGED <<fsVars, bucket, sh, level, crashes, hist>>

\* A step of a call of Timestamps.
CallTimestamps ==
    \/ TimestampsReadMeta
    \/ TimestampsReadDir
    \/ TimestampsNext

\* Out of band, the objects of a block are deleted from the bucket.
RemoteDelete(b) ==
    /\ bucket[b] # {}
    /\ bucket' = [bucket EXCEPT ![b] = {}]
    /\ UNCHANGED <<fsVars, sh, envVars, faults, hist>>

\* --------------------------------------------------------- specification
Step(p) ==
    \/ SyncReadMeta(p)
    \/ IterReadDir(p)
    \/ IterNext(p)
    \/ SyncFilter(p)
    \/ BucketExists(p)
    \/ CleanUpdir(p)
    \/ MakeUpdir(p)
    \/ HardlinkBegin(p)
    \/ LinkFile(p)
    \/ WriteStagedMeta(p)
    \/ UploadFile(p)
    \/ CleanupUpdir(p)
    \/ WriteCreate(p)
    \/ WriteEncode(p)
    \/ RenameRemove(p)
    \/ RenameMove(p)
    \/ RenameFsync(p)
    \/ SyncReturn(p)

Env ==
    \/ \E b \in Blocks : AddBlock(b)
    \/ \E b \in Blocks : DeleteBlock(b)
    \/ MetaFileLost
    \/ MetaFileCorrupt

Next ==
    \/ Step(1)
    \/ Crash(1)
    \/ Env

Spec == Init /\ [][Next]_vars

\* The shipper keeps running: every step of Sync that can be taken is taken,
\* and Sync is called again after it returns.
LiveSpec == Spec /\ WF_vars(Step(1))

\* The shipper with a caller of Timestamps beside it and a bucket whose
\* objects may be deleted out of band; the process is not killed and nobody
\* but the shipper touches the shipper meta file.  The TSDB writes B1 of
\* level 1 and B2 of level 2.
QueryNext ==
    \/ Step(1)
    \/ \E b \in Blocks : AddBlock(b)
    \/ \E b \in Blocks : DeleteBlock(b)
    \/ \E b \in Blocks : RemoteDelete(b)
    \/ CallTimestamps

QueryInit == Init /\ level = [b \in Blocks |-> b]

QuerySpec == QueryInit /\ [][QueryNext]_vars

\* The shipper beside a TSDB that removes block directories entry by
\* entry; no call of the shipper fails but for what the removal takes away.
RaceNext ==
    \/ Step(1) /\ faults' = faults
    \/ \E b \in Blocks : AddBlock(b)
    \/ \E b \in Blocks : DeleteBlock(b)
    \/ \E b \in Blocks : \E f \in BlockEntries : DeleteFile(b, f)

RaceSpec == Init /\ [][RaceNext]_vars

\* Two callers of Sync on the same directory that do not wait for each
\* other (l.139: "It is not concurrency-safe").  No call fails, and the
\* TSDB writes one block, of the first level.
ConcNext ==
    \/ Step(1) /\ faults' = faults
    \/ Step(2) /\ faults' = faults
    \/ AddBlock(1)

ConcInit == Init /\ level = [b \in Blocks |-> 1]

ConcSpec == ConcInit /\ [][ConcNext]_vars

\* ------------------------------------------------------------ properties
HasManifest(b) == BlockMetaFile \in Names(bucket[b])
Readable == ReadMetaFile(metaFile).err = "nil"
Recorded == IF Readable THEN Range(metaFile.uploaded) ELSE {}
WriteSteps == {"wcreate", "wencode", "wremove", "wrename", "wfsync"}
StageSteps == {"rmupdir", "mkupdir", "hardlink", "linking", "wmeta",
               "upload", "cleanup"}
\* The scan of the pass of s has gone through every name.
ScanDone(s) == s.pc \in WriteSteps \/ (s.pc = "ret" /\ s.wrote # "none")

\* C1: whenever <id>/meta.json is in the bucket, every chunk file and the
\* index of that block are in the bucket too; and while a block is being
\* uploaded the manifest is the last object in the queue.
PartialVisibility ==
    /\ \A b \in Blocks : HasManifest(b) => DataFiles \subseteq Names(bucket[b])
    /\ \A p \in Procs :
          (sh[p].pc = "upload" /\ sh[p].upQ # << >>)
             => sh[p].upQ[Len(sh[p].upQ)] = BlockMetaFile

\* A block is in the bucket with its manifest after a failed call and a crash.
PartialVisibilityWitness ==
    \E b \in Blocks : HasManifest(b) /\ faults > 0 /\ crashes > 0

\* C2: the manifest of a block is written to the bucket at most once;
\* objects are transferred only for a block whose Exists returned false in
\* this attempt; for a block it returned true for, sync returns nil (the ID
\* is appended) and nothing is transferred.
AtMostOneUpload ==
    /\ \A b \in Blocks : hist.manifestWrites[b] <= 1
    /\ \A p \in Procs :
          /\ sh[p].transferred \subseteq sh[p].absent
          /\ sh[p].found \cap sh[p].transferred = {}
          /\ sh[p].found \cap sh[p].failed = {}
          /\ sh[p].found \subseteq Range(sh[p].meta.Uploaded)
          /\ sh[p].pc \in StageSteps => Cur(sh[p]) \in sh[p].absent

\* A pass that could not read the meta file finds an uploaded block in the
\* bucket and does not upload it again.
AtMostOneUploadWitness ==
    \E p \in Procs : \E b \in Blocks :
        /\ ~sh[p].readOK
        /\ b \in sh[p].found
        /\ b \in Range(sh[p].meta.Uploaded)
        /\ hist.manifestWrites[b] = 1

\* C3: every ID of the persisted record is the ID of a block whose manifest
\* was uploaded to the bucket at some past point.
BookkeepingInvariant == Recorded \subseteq hist.everShipped

\* C4: while WriteMetaFile runs on a path that held a file, the path holds
\* the old content or the new content.
AtomicFileWrite ==
    \A p \in Procs :
        (sh[p].pc \in WriteSteps /\ sh[p].old.kind # "absent")
           => metaFile \in {sh[p].old, Encode(sh[p].meta)}

\* C5 as stated: a pass that follows a returned pass, with no change of the
\* local blocks since that one began, uploads nothing and leaves the list of
\* recorded IDs as it found it.
Idempotence ==
    \A p \in Procs :
        (sh[p].pc = "ret" /\ sh[p].prev # "none" /\ sh[p].quiet)
           => /\ sh[p].transferred = {}
              /\ LoadedMeta(metaFile).Uploaded = LoadedMeta(sh[p].start).Uploaded

\* C5 amended: when the earlier pass read and recorded every block and
\* wrote the record, the later pass uploads nothing and no Exists call of it
\* returns false; when the later pass reads the record it calls neither
\* Exists nor Upload, and when it also reads the meta.json of every block
\* the file it leaves is the one it found; only a WriteMetaFile that fails
\* after renameFile removed the file leaves none.
IdempotenceAfterCleanPass ==
    \A p \in Procs :
        (sh[p].pc = "ret" /\ sh[p].prev = "clean" /\ sh[p].quiet)
           => /\ sh[p].transferred = {} /\ sh[p].absent = {}
              /\ sh[p].readOK => sh[p].found = {}
              /\ (sh[p].readOK /\ sh[p].unread = {})
                    => \/ metaFile = sh[p].start
                       \/ sh[p].wrote = "err" /\ metaFile = Absent

\* The second of two passes over an unchanged, non-empty set of blocks
\* has written the record.
IdempotenceWitness ==
    \E p \in Procs :
        /\ sh[p].pc = "ret" /\ sh[p].prev = "clean" /\ sh[p].quiet
        /\ sh[p].wrote = "ok"
        /\ sh[p].visited # {}

\* C6 as stated: a pass that began with the record lost ends with every
\* visited block of the lost record recorded again, and transfers nothing
\* for it.
Convergence ==
    \A p \in Procs :
        (ScanDone(sh[p]) /\ ~sh[p].readOK)
           => \A n \in sh[p].intact \cap sh[p].visited :
                 /\ n \in Range(sh[p].meta.Uploaded)
                 /\ n \notin sh[p].transferred

\* C6 amended: ... every visited block of the lost record whose Exists
\* returned true, or that the level filter lets go, is recorded again, and
\* nothing is transferred for it.
ConvergenceWhenFound ==
    \A p \in Procs :
        (ScanDone(sh[p]) /\ ~sh[p].readOK)
           => \A n \in sh[p].intact \cap sh[p].visited :
                 (n \in sh[p].found \/ LevelFilter(level[n]))
                    => /\ n \in Range(sh[p].meta.Uploaded)
                       /\ n \notin sh[p].transferred

\* A pass that began with the record lost has recorded a block of the lost
\* record after finding it in the bucket.
ConvergenceWitness ==
    \E p \in Procs : \E n \in Blocks :
        /\ ScanDone(sh[p]) /\ ~sh[p].readOK
        /\ n \in sh[p].intact \cap sh[p].visited \cap sh[p].found
        /\ n \in Range(sh[p].meta.Uploaded)

\* C7: for a block of compaction level above 1 nothing is in the bucket, no
\* staging directory exists, sync never gets to the Exists call, and sync
\* returns no error.
CompactionFilter ==
    \A b \in Blocks :
        level[b] > 1 =>
            /\ bucket[b] = {}
            /\ staging[b] = NoDir
            /\ \A p \in Procs :
                  /\ (sh[p].pc \in StageSteps \cup {"exists"}) => Cur(sh[p]) # b
                  /\ b \notin sh[p].found \cup sh[p].absent \cup sh[p].failed

\* sync has returned nil for a block of level 2 that was not in the record.
CompactionFilterWitness ==
    \E p \in Procs : \E b \in Blocks :
        /\ level[b] > 1
        /\ b \in sh[p].visited \ sh[p].hasUploaded
        /\ b \in Range(sh[p].meta.Uploaded)

\* C8: a block whose sync failed is not in the new list; a pass with a
\* failed block still goes through every name and calls WriteMetaFile; and
\* when WriteMetaFile returns nil the file holds the new record.
FailureIsolation ==
    \A p \in Procs :
        /\ sh[p].failed \cap Range(sh[p].meta.Uploaded) = {}
        /\ (sh[p].pc = "ret" /\ sh[p].failed # {})
              => /\ sh[p].wrote # "none"
                 /\ sh[p].idx = Len(sh[p].names) + 1
        /\ (sh[p].pc = "ret" /\ sh[p].wrote = "ok")
              => metaFile = Encode(sh[p].meta)

\* A pass in which the first block failed has uploaded the second block and
\* written the record.
FailureIsolationWitness ==
    \E p \in Procs :
        /\ sh[p].pc = "ret" /\ sh[p].wrote = "ok"
        /\ sh[p].names = <<1, 2>>
        /\ sh[p].failed = {1}
        /\ 2 \in sh[p].transferred
        /\ metaFile.uploaded = <<2>>

\* The list C9 expects: the visited names, in scan order, that were in the
\* loaded record or for which sync returned nil.
Rebuilt(s) ==
    SelectSeq(s.names,
              LAMBDA n : n \in s.visited
                         /\ (n \in s.hasUploaded \/ n \notin s.failed))

\* C9: after a pass that wrote the record, the file holds version 1 and the
\* rebuilt list, and no ID of the loaded record that was not visited.
RecordRebuild ==
    \A p \in Procs :
        (sh[p].pc = "ret" /\ sh[p].wrote = "ok")
           => /\ metaFile = [kind |-> "json", version |-> 1,
                             uploaded |-> Rebuilt(sh[p])]
              /\ Recorded \cap (sh[p].hasUploaded \ sh[p].visited) = {}

\* A pass has dropped the ID of a block that is gone and recorded a block it
\* uploaded.
RecordRebuildWitness ==
    \E p \in Procs :
        /\ sh[p].pc = "ret" /\ sh[p].wrote = "ok"
        /\ sh[p].hasUploaded \ sh[p].visited # {}
        /\ sh[p].transferred \cap Recorded # {}

\* C10: a block of level at most 1 that stays in the data directory is
\* eventually in the bucket with its manifest and in the persisted record.
EventualShipping ==
    \A b \in Blocks :
        <>[](local[b] = "present" /\ ~LevelFilter(level[b]))
           => <>(HasManifest(b) /\ b \in Recorded)

\* A block is shipped and recorded after a failed call and a crash.
EventualShippingWitness ==
    \E b \in Blocks :
        /\ local[b] = "present" /\ level[b] = 1
        /\ HasManifest(b) /\ b \in Recorded
        /\ faults = MaxFaults /\ crashes = MaxCrashes

\* ------------------------------------------------------------ Timestamps
Scanned == {b \in Blocks : MetaReadable(b)}
Least(S) == CHOOSE x \in S : \A y \in S : ~Less64(y, x)
Greatest(S) == CHOOSE x \in S : \A y \in S : ~Less64(x, y)
\* What a call of Timestamps returns when it runs from here with no call
\* failing and nothing changing while it runs.
Now == Timestamps(metaFile, ScannedNames, FALSE)
\* What the call of Timestamps that has returned gave to its caller.
Returned == [minTime |-> ts.minTime, maxSyncTime |-> ts.maxSyncTime,
             err |-> ts.err]
ExampleResult == [minTime |-> <<0, 0, 50>>, maxSyncTime |-> <<0, 0, 200>>, err |-> "nil"]

\* C11: a call of Timestamps that read the record returns no error unless
\* the directory could not be listed, minTime is the least MinTime of the
\* blocks it scanned (0 when there is none) and maxSyncTime the greatest
\* MaxTime of the scanned blocks of the record it read (math.MinInt64 when
\* there is none); a call that could not read the record returns (0, 0) and
\* the error; a call that scanned the blocks that are there now and read the
\* record that is there now returned what a call from here returns; and
\* after one pass without failure over B1 (level 1, 100..200) and B2 (level
\* 2, 50..150), begun with an empty record, B1 is in the bucket, B2 is not,
\* and Timestamps returns (50, 200).
TimestampsResult ==
    /\ (ts.pc = "done" /\ ts.err = "nil") =>
          /\ ts.minTime = IF ts.seen = {} THEN <<0, 0, 0>>
                          ELSE Least({BlockMinTime(b) : b \in ts.seen})
          /\ ts.maxSyncTime =
                IF ts.seen \cap ts.hasUploaded = {} THEN MathMinInt64
                ELSE Greatest({BlockMaxTime(b) : b \in ts.seen \cap ts.hasUploaded})
          /\ (Readable /\ ts.hasUploaded = Recorded /\ ts.seen = Scanned)
                => Returned = Now
    /\ (ts.pc = "done" /\ ts.err # "nil") =>
          /\ ts.minTime = <<0, 0, 0>> /\ ts.maxSyncTime = <<0, 0, 0>>
          /\ ts.seen = {}
    /\ ts.pc \in {"dir", "loop"} => ts.err = "none"
    /\ \A p \in Procs :
          (/\ sh[p].pc = "ret" /\ sh[p].wrote = "ok" /\ sh[p].failed = {}
           /\ sh[p].hasUploaded = {} /\ sh[p].names = <<1, 2>>
           /\ sh[p].visited = {1, 2} /\ sh[p].quiet
           /\ level[1] = 1 /\ level[2] = 2)
             => /\ 1 \in hist.everShipped
                /\ bucket[2] = {}
                /\ Now = ExampleResult
                /\ (ts.pc = "done" /\ ts.seen = {1, 2} /\ ts.hasUploaded = {1, 2})
                      => Returned = ExampleResult

\* Timestamps was called after a pass over B1 (level 1) and B2 (level 2) that
\* recorded both, scanned both, and returned (50, 200).
TimestampsResultWitness ==
    /\ \A p \in Procs : sh[p].pc = "idle"
    /\ level[1] = 1 /\ level[2] = 2
    /\ Scanned = {1, 2} /\ Recorded = {1, 2}
    /\ HasManifest(1) /\ bucket[2] = {}
    /\ ts.pc = "done" /\ ts.seen = {1, 2} /\ ts.hasUploaded = {1, 2}
    /\ Returned = ExampleResult

\* C12: a maxSyncTime that Timestamps returned, when it is not the
\* sentinel, is the MaxTime of a block whose manifest was uploaded.
SyncedWatermark ==
    (ts.pc = "done" /\ ts.err = "nil" /\ ts.maxSyncTime # MathMinInt64)
       => \E b \in hist.everShipped : BlockMaxTime(b) = ts.maxSyncTime

\* C15: for a scanned block of the loaded record, whatever the bucket
\* holds, Sync calls neither Exists nor Upload and appends the ID again, so
\* that a pass that writes the record writes the ID; and a call of
\* Timestamps that reads a record and scans a block of it returns a
\* maxSyncTime that is at least the block's MaxTime.
RecordedIDsTrusted ==
    /\ \A p \in Procs : \A b \in sh[p].visited \cap sh[p].hasUploaded :
          /\ b \notin sh[p].found \cup sh[p].absent
          /\ b \notin sh[p].failed \cup sh[p].transferred
          /\ b \in Range(sh[p].meta.Uploaded)
          /\ (sh[p].pc \in StageSteps \cup {"sync", "exists"}) => Cur(sh[p]) # b
          /\ (sh[p].pc = "ret" /\ sh[p].wrote = "ok") => b \in Recorded
    /\ (ts.pc = "done" /\ ts.err = "nil")
          => \A b \in ts.seen \cap ts.hasUploaded :
                ~Less64(ts.maxSyncTime, BlockMaxTime(b))

\* A pass has recorded again a block of the loaded record whose objects
\* were deleted from the bucket, and Timestamps, called then, returned its
\* MaxTime as maxSyncTime.
RecordedIDsTrustedWitness ==
    \E p \in Procs : \E b \in sh[p].visited \cap sh[p].hasUploaded :
        /\ sh[p].pc = "ret" /\ sh[p].wrote = "ok"
        /\ b \in hist.everShipped /\ bucket[b] = {}
        /\ b \in Recorded
        /\ ts.pc = "done" /\ ts.err = "nil"
        /\ b \in ts.seen \cap ts.hasUploaded
        /\ ts.maxSyncTime = BlockMaxTime(b)

\* C13: in an attempt that follows a crash, as in any other, the staging
\* directory is gone after l.208 and empty after l.211, and while the files
\* are linked it holds the files linked so far and nothing else: no link
\* fails on a leftover entry, and a link fails only on a failing call or
\* on a source block that is gone.
StagingCrashSafety ==
    \A p \in Procs :
        LET s == sh[p] IN
        /\ s.pc = "mkupdir" => staging[Cur(s)] = NoDir
        /\ s.pc = "hardlink" => staging[Cur(s)] = EmptyDir
        /\ s.pc = "linking" =>
              /\ staging[Cur(s)].dir /\ staging[Cur(s)].chunks
              /\ s.files = LinkList([i \in 1..MaxChunks |-> ChunkFile(i)])
              /\ Names(staging[Cur(s)].files) = Range(s.files) \ Range(s.linkQ)
        /\ (s.pc = "cleanup" /\ s.err = "hard link file")
              => (faults > 0 \/ local[Cur(s)] # "present")

\* After a crash that left a staging directory with links in it, the next
\* attempt for the block removed the directory and uploaded the block.
StagingCrashSafetyWitness ==
    \E p \in Procs : \E b \in sh[p].stale :
        /\ crashes > 0
        /\ sh[p].pc = "cleanup" /\ sh[p].err = "nil" /\ Cur(sh[p]) = b
        /\ HasManifest(b)

\* C14: when the meta file is missing, undecodable or of another version,
\* or its read fails, Sync goes on to the scan with an empty record of version 1; in such a
\* pass no block is taken as recorded, s.sync is called for every block the
\* callback is called for, and a WriteMetaFile that returns nil has put the
\* new record, of version 1, in place of the file.
ReadFailureNotFatal ==
    \A p \in Procs :
        LET s == sh[p] IN
        /\ (s.pc = "iter" /\ (metaFile.kind # "json" \/ metaFile.version # 1))
              => /\ ~s.readOK
                 /\ s.meta = [Version |-> 1, Uploaded |-> << >>]
        /\ (s.pc # "idle" /\ ~s.readOK)
              => /\ s.hasUploaded = {}
                 /\ s.meta.Version = 1
                 /\ \A b \in s.visited :
                       \/ b \in s.found \cup s.absent \cup s.failed
                       \/ LevelFilter(level[b])
                       \/ s.pc \in {"sync", "exists"} /\ Cur(s) = b
        /\ (s.pc = "ret" /\ ~s.readOK /\ s.wrote = "ok")
              => /\ metaFile = Encode(s.meta)
                 /\ Readable

\* A pass that began with the record lost has checked one block in the
\* bucket, uploaded another, and written the new record.
ReadFailureNotFatalWitness ==
    \E p \in Procs :
        /\ sh[p].pc = "ret" /\ ~sh[p].readOK /\ sh[p].wrote = "ok"
        /\ sh[p].intact # {}
        /\ sh[p].found # {} /\ sh[p].transferred # {}
        /\ Recorded = sh[p].visited

\* C16: WriteMetaFile is called only when the loop has gone through every
\* name, once in a pass; the ID of a block whose s.sync failed is not in the
\* record to write; a pass returns without the call only when the directory
\* could not be listed; and while a pass is under way no step but the two
\* of renameFile changes the meta file: not the steps of the scan and of
\* the attempts, not a failed upload, not a crash.
RecordWrittenAtEnd ==
    /\ [](\A p \in Procs :
             /\ sh[p].pc \in WriteSteps
                   => /\ sh[p].idx = Len(sh[p].names) + 1
                      /\ sh[p].wrote = "none"
             /\ sh[p].failed \cap Range(sh[p].meta.Uploaded) = {}
             /\ (sh[p].pc = "ret" /\ sh[p].wrote = "none")
                   => (sh[p].names = << >> /\ sh[p].idx = 0))
    /\ [][/\ ((\E p \in Procs : sh[p].pc # "idle")
              /\ (\A p \in Procs : sh[p].pc \notin {"wremove", "wrename"}))
                => metaFile' = metaFile
          /\ \A p \in Procs :
                (sh'[p].pc = "wcreate" /\ sh[p].pc # "wcreate")
                   => sh[p].pc = "loop"]_vars

\* A pass in which an upload was cut short after the first objects has
\* written a record without the ID of that block.
RecordWrittenAtEndWitness ==
    \E p \in Procs : \E b \in sh[p].failed \cap sh[p].transferred :
        /\ sh[p].pc = "ret" /\ sh[p].wrote = "ok"
        /\ Readable /\ b \notin Recorded
        /\ metaFile = Encode(sh[p].meta)

\* s.sync returns for the current block of p in this step.
SyncReturns(p) ==
    /\ sh[p].pc \in StageSteps \cup {"sync", "exists"}
    /\ sh'[p].pc \in {"loop", "ret"}

\* C17 as stated: whenever s.sync returns, with nil or with an error, and no
\* os.RemoveAll has failed, the staging directory of the block does not
\* exist afterwards.
StagingRemovedOnReturn ==
    [][\A p \in Procs :
          (SyncReturns(p) /\ ~hist'.rmFailed)
             => staging'[Cur(sh[p])] = NoDir]_vars

\* C17 amended: whenever s.sync returns from a step past the existence
\* check, and no os.RemoveAll has failed, the staging directory of the
\* block does not exist afterwards; and as long as no process has crashed
\* and no os.RemoveAll has failed, a staging directory exists only while
\* the attempt for its block is under way.
StagingRemovedAfterUse ==
    /\ [][\A p \in Procs :
             (SyncReturns(p) /\ sh[p].pc \in StageSteps /\ ~hist'.rmFailed)
                => staging'[Cur(sh[p])] = NoDir]_vars
    /\ []((crashes = 0 /\ ~hist.rmFailed)
            => \A b \in Blocks :
                  staging[b] # NoDir
                     => \E p \in Procs :
                           sh[p].pc \in StageSteps /\ Cur(sh[p]) = b)

\* After a crash left a staging directory, the next attempt for the block
\* uploaded some objects, failed, and left no staging directory.
StagingRemovedAfterUseWitness ==
    \E p \in Procs : \E b \in sh[p].stale \cap sh[p].failed :
        /\ crashes > 0 /\ ~hist.rmFailed
        /\ b \in sh[p].transferred
        /\ sh[p].pc \in {"loop", "ret"}
        /\ staging[b] = NoDir

\* C18: the meta.json of every block directory keeps the bytes the TSDB
\* wrote; the staged meta.json is the link to it until block.WriteMetaFile
\* has run and a new file with the Thanos fields after that; and the
\* meta.json in the bucket is the new file.
SourceUnmodified ==
    /\ \A b \in Blocks :
          /\ srcMeta[b] = "tsdb"
          /\ HasManifest(b) => ContentOf(bucket[b], BlockMetaFile) = "thanos"
    /\ \A p \in Procs :
          LET b == Cur(sh[p]) IN
          /\ sh[p].pc = "wmeta"
                => ContentOf(staging[b].files, BlockMetaFile) = srcMeta[b]
          /\ sh[p].pc = "upload"
                => ContentOf(staging[b].files, BlockMetaFile) = "thanos"

\* A block is in the bucket with the new meta.json, after one attempt
\* failed, and its directory holds the meta.json of the TSDB.
SourceUnmodifiedWitness ==
    \E b \in Blocks :
        /\ HasManifest(b)
        /\ ContentOf(bucket[b], BlockMetaFile) = "thanos"
        /\ local[b] = "present" /\ srcMeta[b] = "tsdb"
        /\ faults > 0 /\ staging[b] = NoDir

\* The staged files right after hardlinkBlock: the links to the files listed.
Snapshot(s) == {Entry(f, SrcContent(Cur(s), f)) : f \in Range(s.files)}

\* C19: once hardlinkBlock has returned, whatever happens to the block
\* directory, the staging directory holds the files linked, then the same
\* with the new meta.json, and these are the objects uploaded; and an
\* attempt whose block directory lost an entry, or went away, before the
\* last link was made returns an error and transfers nothing.
StableSnapshot ==
    \A p \in Procs :
        LET s == sh[p]
            b == Cur(s)
        IN
        /\ s.pc = "wmeta" => staging[b].files = Snapshot(s)
        /\ s.pc = "upload"
              => staging[b].files = Put(Snapshot(s), BlockMetaFile, "thanos")
        /\ (s.pc = "cleanup" /\ s.err = "nil")
              => /\ staging[b].files = Put(Snapshot(s), BlockMetaFile, "thanos")
                 /\ staging[b].files \subseteq bucket[b]
        /\ (s.pc # "idle" /\ s.raced)
              => /\ s.pc \notin {"wmeta", "upload"}
                 /\ s.pc = "cleanup" => s.err # "nil"
                 /\ b \notin s.transferred

\* C20: what serialized passes guarantee holds as long as no call of Sync
\* has begun while another was under way: the staging directory of an
\* attempt holds what that attempt has put there, and between two passes
\* every local block whose manifest is in the bucket is in the record.
\* Once two calls have overlapped neither needs to hold.
SerializedSyncGuarantees ==
    ~hist.overlap =>
        /\ \A p \in Procs :
              LET s == sh[p]
                  b == Cur(s)
              IN
              /\ s.pc = "hardlink" => staging[b] = EmptyDir
              /\ s.pc = "linking"
                    => /\ staging[b].dir /\ staging[b].chunks
                       /\ Names(staging[b].files) = Range(s.files) \ Range(s.linkQ)
              /\ s.pc = "wmeta" => staging[b].files = Snapshot(s)
              /\ s.pc = "upload"
                    => staging[b].files = Put(Snapshot(s), BlockMetaFile, "thanos")
        /\ (\A p \in Procs : sh[p].pc = "idle")
              => \A b \in Blocks :
                    (HasManifest(b) /\ MetaReadable(b)) => b \in Recorded

\* Two calls of Sync have overlapped: one removed the staging directory
\* the other was working in, and the record written last lacks the ID of a
\* local block that the other call uploaded.
SerializedSyncGuaranteesWitness ==
    /\ hist.overlap /\ hist.clobbered
    /\ \A p \in Procs : sh[p].pc = "idle"
    /\ Readable
    /\ \E b \in Blocks :
          HasManifest(b) /\ MetaReadable(b) /\ b \notin Recorded

====
